---- MODULE Spec2Model ----
(***************************************************************************)
(* RCLF simulation engine (src/unnamed/part_000): the ChemistryEngine      *)
(* accumulator and ledger, the PhysicsEngine particle population and the   *)
(* Simulation orchestrator, as a state machine.                            *)
(*                                                                         *)
(* Arithmetic is exact.  Every real quantity of the program is held as a   *)
(* whole number of a fixed unit, chosen so that each value the code        *)
(* computes from the modelled inputs is a whole number of that unit:       *)
(*   speed                 tenths                (1.0x  = 10)              *)
(*   dt                    milliseconds                                    *)
(*   simTimeMs             simulated hours       (3,600,000 ms)            *)
(*   totalFInput           100 g                                           *)
(*   totalFluoriteOutput,                                                  *)
(*   totalCaCl2Used        100 g / 38                                      *)
(*   totalRevenue          BRL / 760                                       *)
(*   totalVariableCost     BRL / 3800                                      *)
(*   totalSavings          BRL / 800                                       *)
(*   totalFixedCost        BRL                                             *)
(*   currentPH             hundredths of a pH unit                         *)
(*   x, y, vx, vy          1/40000 px            (PX)                      *)
(*   size                  1/200 px              (1.0 = 200)               *)
(*   alpha                 hundredths                                      *)
(*   Math.random()         hundredths            (0 .. 99)                 *)
(*   reported rev30        BRL / 760                                       *)
(*   netProfit, pro30      BRL / 152                                       *)
(*   reported roi          ten-thousandths of a percent                    *)
(* Quotients the code takes of other values (the drag's 1 / size, the pH   *)
(* relaxation's * 0.1) are rounded down to the unit.                       *)
(***************************************************************************)
EXTENDS Integers, Sequences, FiniteSets, TLC

VARIABLES state, chem, particles, ui, inputEvents

vars == <<state, chem, particles, ui, inputEvents>>

(***************************************************************************)
(* CONFIG                                                                  *)
(***************************************************************************)
\* STOICHIOMETRY.F_TO_CAF2 = 78 / 38 and F_TO_CACL2 = 111 / 38
F_TO_CAF2_NUM == 78
F_TO_CACL2_NUM == 111
STOICH_DEN == 38
\* MARKET, BRL per ton
PRICE_METALSPAR == 3000
PRICE_ACIDSPAR == 5500
COST_CACL2 == 1100
\* AVOIDED_COST_LIME_SLUDGE = 7237.5 BRL per ton, in halves of a BRL
AVOIDED_COST_HALF_BRL == 14475
\* FINANCIAL
CAPEX == 15000000
OPEX_FIXED_DAY == 4800
\* PHYSICS.TARGET_PH = 8.2, in hundredths
TARGET_PH == 820
\* currentPH = 7.0 after construction and reset, in hundredths
INITIAL_PH == 700
\* history keeps at most this many snapshots
HISTORY_CAP == 40
\* 24 * 3600 * 1000 ms of simulated time, in hours
HOURS_PER_DAY == 24

(***************************************************************************)
(* Bounds of the model and the inputs it draws                             *)
(***************************************************************************)
\* Spec: ticks stop once simulated time has reached this many days.
MaxSimDays == 42
\* SpecBed: the same, for the runs that follow the particle population.
MaxBedDays == 1
\* Control inputs (slider events) since construction.
MaxInputEvents == 1
\* SpecBed: particles alive at once (a tick that would spawn past it is not taken).
MaxBedParticles == 1
\* SpecPhys: the same.
MaxParticles == 2
\* SpecParticle: updates applied to the drawn particle.
MaxParticleTicks == 4

\* Real time between two frames, ms.  Spec: 6 s (one simulated day at 1.0x, half
\* a day at 0.5x) and a stall of 186 s (31 simulated days at 1.0x).
DtSet == {6000, 186000}
\* SpecBed: none, or 3 s (half a simulated day at 1.0x).
BedDtSet == {0, 3000}
\* speedControl values, tenths
SpeedSet == {5, 10}
\* flowControl values, m3/h
FlowSet == {450, 900}
\* concControl values, mg/L
ConcSet == {0, 50}
\* purityControl values, % Acidspar
PuritySet == {0, 40, 100}
\* Math.random() outcomes for the pH drift, as the drift they give (hundredths)
DriftSet == {0}
\* Math.random() outcomes, hundredths.  A spawn draws six: the spawn test, the
\* x jitter, the type, the fluid start size, vx and vy.
\* Spec: the spawn test's draw is 0.99, above 0.3 * speed for every speed of
\* SpeedSet, so the population stays empty over the long ledger runs.
NoSpawnDraws == {[spawn |-> 99, x |-> 50, type |-> 50, size |-> 50, vx |-> 75, vy |-> 95]}
\* SpecBed, SpecPhys: no spawn, a crystal (type draw > 0.3) or a fluid particle.
BedDraws ==
    {[spawn |-> s, x |-> 50, type |-> t, size |-> 50, vx |-> 75, vy |-> 95] :
        s \in {0, 99}, t \in {20, 50}}
\* SpecPhys: the speed (tenths) and flow rate the engine is driven at.  At 1.0x
\* a fluid particle leaves through the top of the bed after 52 ticks; at 0.5x
\* it fades out (alpha 0) after 100 ticks, 10 px short of the top.
PhysSpeedSet == {5, 10}
PhysFlowSet == {450}
\* SpecPhysRunning: the speed the engine is kept running at, 2.0x: a fluid
\* particle leaves through the top after 26 ticks, a crystal is flagged at the
\* transition line and falls back through the lower bound
RunningSpeedSet == {20}
\* SpecParticle: the speed of a tick (0.1x, 2.0x) at the constructed flow rate,
\* and the canvas height left by a resize before it, px
ParticleSpeedSet == {1, 20}
CanvasHeightSet == {600, 900}

\* canvas.width, canvas.height as sized from the parent element, px
canvas == [width |-> 800, height |-> 600]

(***************************************************************************)
(* ChemistryEngine                                                         *)
(***************************************************************************)
\* constructor: the engine as constructed
ChemistryEngine ==
    [currentPH |-> INITIAL_PH,
     totalFInput |-> 0,
     totalFluoriteOutput |-> 0,
     totalCaCl2Used |-> 0,
     totalRevenue |-> 0,
     totalVariableCost |-> 0,
     totalFixedCost |-> 0,
     totalSavings |-> 0,
     simTimeMs |-> 0,
     history |-> <<>>,
     lastSnapshotDay |-> -1,
     purityMix |-> 0]

\* reset() without its this.history = [] and this.lastSnapshotDay = -1
chemResetKeepsHistory(c) ==
    [c EXCEPT !.currentPH = INITIAL_PH,
              !.totalFInput = 0,
              !.totalFluoriteOutput = 0,
              !.totalCaCl2Used = 0,
              !.totalRevenue = 0,
              !.totalVariableCost = 0,
              !.totalSavings = 0,
              !.simTimeMs = 0,
              !.totalFixedCost = 0,
              !.purityMix = 0]

\* reset(): every field reassigned
chemReset(c) ==
    [c EXCEPT !.currentPH = INITIAL_PH,
              !.totalFInput = 0,
              !.totalFluoriteOutput = 0,
              !.totalCaCl2Used = 0,
              !.totalRevenue = 0,
              !.totalVariableCost = 0,
              !.totalSavings = 0,
              !.simTimeMs = 0,
              !.totalFixedCost = 0,
              !.history = <<>>,
              !.lastSnapshotDay = -1,
              !.purityMix = 0]

\* dt taken as lastTime - time
simHoursReversed(dt, speed) == -((dt * speed) \div 2500)

\* effectiveDt * timeMultiplier, in simulated hours:
\* (dt / 1000) * speed * 14400 s = dt * speedTenths / 2500 h
simHours(dt, speed) == (dt * speed) \div 2500

\* massF without the time multiplier of 14400
massFOfRealTime(flowRate, ppmF, dt, speed) ==
    (flowRate * ppmF * simHours(dt, speed)) \div (100 * 14400)

\* massF = (flowRate * ppmF / 3600) * effectiveDt * timeMultiplier, in 100 g
massFOf(flowRate, ppmF, dt, speed) ==
    (flowRate * ppmF * simHours(dt, speed)) \div 100

\* massFluorite = massF * F_TO_CAF2, in 100 g / 38
massFluoriteOf(massF) == massF * F_TO_CAF2_NUM

\* the reagent mass taken with the product's ratio
massCaCl2OfProductRatio(massF) == massF * F_TO_CAF2_NUM

\* massCaCl2 = massF * F_TO_CACL2, in 100 g / 38
massCaCl2Of(massF) == massF * F_TO_CACL2_NUM

\* metalPercent = acidPercent - 1
weightedPriceSignSlip(purityMix) ==
    (purityMix * PRICE_ACIDSPAR + (purityMix - 100) * PRICE_METALSPAR) \div 100

\* weightedPrice = acidPercent * PRICE_ACIDSPAR + metalPercent * PRICE_METALSPAR,
\* BRL per ton; purityMix in percent
weightedPrice(purityMix) ==
    (purityMix * PRICE_ACIDSPAR + (100 - purityMix) * PRICE_METALSPAR) \div 100

\* the product priced at the Metalspar price whatever the mix
revenueOfStandardPrice(massFluorite, purityMix) ==
    massFluorite * (PRICE_METALSPAR \div 500)

\* tonsFluorite * weightedPrice, in BRL / 760:
\* (massFluorite / 38 * 100 g / 1e6) * price = massFluorite * (price / 500) / 760
revenueOf(massFluorite, purityMix) == massFluorite * (weightedPrice(purityMix) \div 500)

\* tonsCaCl2 * COST_CACL2, in BRL / 3800
variableCostOf(massCaCl2) == massCaCl2 * (COST_CACL2 \div 100)

\* tonsF * AVOIDED_COST_LIME_SLUDGE, in BRL / 800
savingsOf(massF) == massF * (AVOIDED_COST_HALF_BRL \div 25)

\* the fixed cost charged per completed day
fixedCostOfWholeDays(simTimeMs) == (simTimeMs \div HOURS_PER_DAY) * OPEX_FIXED_DAY

\* totalDays * OPEX_FIXED_DAY with totalDays = simTimeMs / (1000 * 24 * 3600), BRL
fixedCostOf(simTimeMs) == (simTimeMs * OPEX_FIXED_DAY) \div HOURS_PER_DAY

\* currentDay = Math.floor(simTimeMs / (1000 * 24 * 3600))
currentDayOf(simTimeMs) == simTimeMs \div HOURS_PER_DAY

\* the snapshot with the variable cost alone as its cost
snapshotOfVariableCost(c, currentDay) ==
    [day |-> currentDay,
     revenue |-> c.totalRevenue,
     savings |-> c.totalSavings,
     cost |-> c.totalVariableCost]

\* the snapshot pushed on a day rollover; cost = variable + fixed, in BRL / 3800
snapshotOf(c, currentDay) ==
    [day |-> currentDay,
     revenue |-> c.totalRevenue,
     savings |-> c.totalSavings,
     cost |-> c.totalVariableCost + c.totalFixedCost * 3800]

\* currentDay >= this.lastSnapshotDay
snapshotDueOrSame(currentDay, lastSnapshotDay) == currentDay >= lastSnapshotDay

\* if (currentDay > this.lastSnapshotDay)
snapshotDue(currentDay, lastSnapshotDay) == currentDay > lastSnapshotDay

\* history.pop() in place of history.shift()
pushSnapshotPop(history, snap) ==
    LET pushed == Append(history, snap)
    IN  IF Len(pushed) > HISTORY_CAP THEN SubSeq(pushed, 1, HISTORY_CAP) ELSE pushed

\* history.push(snapshot); if (history.length > 40) history.shift()
pushSnapshot(history, snap) ==
    LET pushed == Append(history, snap)
    IN  IF Len(pushed) > HISTORY_CAP THEN Tail(pushed) ELSE pushed

\* the relaxation with a factor of 1.1
nextPHOvershoot(ph, drift) == ph + (((TARGET_PH - ph) * 11) \div 10) + drift

\* currentPH += (TARGET_PH - currentPH) * 0.1 + drift
nextPH(ph, drift) == ph + ((TARGET_PH - ph) \div 10) + drift

\* calculateReaction with a frame of no length taken as a frame of 3 s
calculateReactionMinFrame(c, flowRate, ppmF, dt, speed, drift) ==
    LET frame == IF dt = 0 THEN 3000 ELSE dt
        massF == massFOf(flowRate, ppmF, frame, speed)
        massFluorite == massFluoriteOf(massF)
        massCaCl2 == massCaCl2Of(massF)
        simTimeMs == c.simTimeMs + simHours(frame, speed)
        c1 == [c EXCEPT !.totalFInput = @ + massF,
                        !.totalFluoriteOutput = @ + massFluorite,
                        !.totalCaCl2Used = @ + massCaCl2,
                        !.totalRevenue = @ + revenueOf(massFluorite, c.purityMix),
                        !.totalVariableCost = @ + variableCostOf(massCaCl2),
                        !.totalSavings = @ + savingsOf(massF),
                        !.simTimeMs = simTimeMs,
                        !.totalFixedCost = fixedCostOf(simTimeMs)]
        currentDay == currentDayOf(simTimeMs)
        c2 == IF snapshotDue(currentDay, c1.lastSnapshotDay)
              THEN [c1 EXCEPT !.history = pushSnapshot(@, snapshotOf(c1, currentDay)),
                              !.lastSnapshotDay = currentDay]
              ELSE c1
    IN  [c2 EXCEPT !.currentPH = nextPH(@, drift)]

\* calculateReaction(flowRate, ppmF, dt, speed), drift = (Math.random() - 0.5) * 0.02
calculateReaction(c, flowRate, ppmF, dt, speed, drift) ==
    LET massF == massFOf(flowRate, ppmF, dt, speed)
        massFluorite == massFluoriteOf(massF)
        massCaCl2 == massCaCl2Of(massF)
        simTimeMs == c.simTimeMs + simHours(dt, speed)
        c1 == [c EXCEPT !.totalFInput = @ + massF,
                        !.totalFluoriteOutput = @ + massFluorite,
                        !.totalCaCl2Used = @ + massCaCl2,
                        !.totalRevenue = @ + revenueOf(massFluorite, c.purityMix),
                        !.totalVariableCost = @ + variableCostOf(massCaCl2),
                        !.totalSavings = @ + savingsOf(massF),
                        !.simTimeMs = simTimeMs,
                        !.totalFixedCost = fixedCostOf(simTimeMs)]
        currentDay == currentDayOf(simTimeMs)
        c2 == IF snapshotDue(currentDay, c1.lastSnapshotDay)
              THEN [c1 EXCEPT !.history = pushSnapshot(@, snapshotOf(c1, currentDay)),
                              !.lastSnapshotDay = currentDay]
              ELSE c1
    IN  [c2 EXCEPT !.currentPH = nextPH(@, drift)]

(***************************************************************************)
(* Particle                                                                *)
(***************************************************************************)
\* one pixel, in position units
PX == 4 * 10000

\* constructor(x, y, size, type); rvx, rvy are its two Math.random() draws:
\* vx = (random - 0.5) * 1, vy = crystal ? random * 2 : -random * 3.
\* color follows from type.  ticks and visits are not fields of the program:
\* they count the running ticks at whose start the particle was in the
\* population, and the times forEach has visited it.
Particle(x, y, size, type, rvx, rvy) ==
    [x |-> x,
     y |-> y,
     size |-> size,
     type |-> type,
     vx |-> (rvx - 50) * (PX \div 100),
     vy |-> IF type = "crystal" THEN rvy * 2 * (PX \div 100) ELSE -(rvy * 3 * (PX \div 100)),
     alpha |-> 100,
     sedimenting |-> FALSE,
     ticks |-> 0,
     visits |-> 0]

\* size 6, the size at which a crystal stops growing and sediments
SIZE_MAX == 1200
\* this.size += 0.015
GROWTH == 3

\* growth without the test of vy
grownSizeAnyVelocity(p) ==
    IF ~p.sedimenting /\ p.size < SIZE_MAX THEN p.size + GROWTH ELSE p.size

\* Growth logic: if (!sedimenting && vy < 0 && size < 6) size += 0.015
grownSize(p) ==
    IF ~p.sedimenting /\ p.vy < 0 /\ p.size < SIZE_MAX THEN p.size + GROWTH ELSE p.size

\* drag = (fluidVelocity * 0.12) * (1 / size); fluidVelocity in thousandths
dragOf(fluidVelocity, size) == (fluidVelocity * 960) \div size

\* grav = 0.05 * size
gravOf(size) == 10 * size

\* the transition as a test of the present position and size alone
sedimentingAfterRetested(p, size, centerY) ==
    p.y < (centerY - 130) * PX \/ size >= SIZE_MAX

\* Forced transition: if (y < centerY - 130 || size >= 6) sedimenting = true
sedimentingAfter(p, size, centerY) ==
    p.sedimenting \/ p.y < (centerY - 130) * PX \/ size >= SIZE_MAX

\* the velocity without the floor of the sedimenting branch
vyAfterNoFloor(p, size, sedimenting, fluidVelocity) ==
    IF sedimenting
    THEN p.vy + (gravOf(size) * 3) \div 2
    ELSE p.vy + gravOf(size) - dragOf(fluidVelocity, size)

\* sedimenting: vy += grav * 1.5; if (vy < 1.5) vy = 1.5.  Rising: vy += grav - drag
vyAfter(p, size, sedimenting, fluidVelocity) ==
    IF sedimenting
    THEN LET v == p.vy + (gravOf(size) * 3) \div 2
         IN  IF v < (3 * PX) \div 2 THEN (3 * PX) \div 2 ELSE v
    ELSE p.vy + gravOf(size) - dragOf(fluidVelocity, size)

\* Math.sin(y * 0.05) * 2: its sign over the period of 2 pi / 0.05 = 126 px,
\* at its mean magnitude of one pixel
wobble(y) == IF (y \div PX) % 126 < 63 THEN PX ELSE -PX

\* the update with its transition line 20 px higher, at centerY - 150
updateLineRaised(p, fluidVelocity, centerY) ==
    IF p.type = "crystal"
    THEN LET size == grownSize(p)
             sedimenting == sedimentingAfter(p, size, centerY - 20)
             vy == vyAfter(p, size, sedimenting, fluidVelocity)
         IN  [p EXCEPT !.size = size,
                       !.sedimenting = sedimenting,
                       !.vy = vy,
                       !.x = @ + p.vx,
                       !.y = @ + vy]
    ELSE LET y == p.y - fluidVelocity * 2 * (PX \div 1000)
         IN  [p EXCEPT !.y = y,
                       !.x = @ + wobble(y),
                       !.alpha = @ - 1]

\* update(dt, fluidVelocity, centerY); dt is not read
update(p, fluidVelocity, centerY) ==
    IF p.type = "crystal"
    THEN LET size == grownSize(p)
             sedimenting == sedimentingAfter(p, size, centerY)
             vy == vyAfter(p, size, sedimenting, fluidVelocity)
         IN  [p EXCEPT !.size = size,
                       !.sedimenting = sedimenting,
                       !.vy = vy,
                       !.x = @ + p.vx,
                       !.y = @ + vy]
    ELSE LET y == p.y - fluidVelocity * 2 * (PX \div 1000)
         IN  [p EXCEPT !.y = y,
                       !.x = @ + wobble(y),
                       !.alpha = @ - 1]

\* isOutOfBounds(centerY)
isOutOfBounds(p, centerY) ==
    p.y > (centerY + 220) * PX \/ p.y < (centerY - 280) * PX

\* a particle taken as dead only once alpha is below 0
isDeadBelowZero(p) == p.alpha < 0

\* isDead()
isDead(p) == p.alpha <= 0

(***************************************************************************)
(* PhysicsEngine                                                           *)
(***************************************************************************)
\* particles.splice(i, 1)
splice(ps, i) == [k \in 1 .. Len(ps) - 1 |-> IF k < i THEN ps[k] ELSE ps[k + 1]]

\* particles.forEach((p, i) => { p.update(...); if (out || dead) splice(i, 1) }):
\* forEach visits the indices 0 .. len - 1 of the length it read at its start,
\* and skips an index that is no longer in the array.  i is 1-based here.
RECURSIVE forEachFrom(_, _, _, _, _)
forEachFrom(ps, i, len, fluidVelocity, centerY) ==
    IF i > len THEN ps
    ELSE IF i > Len(ps) THEN forEachFrom(ps, i + 1, len, fluidVelocity, centerY)
    ELSE LET p == [update(ps[i], fluidVelocity, centerY) EXCEPT !.visits = @ + 1]
             updated == [ps EXCEPT ![i] = p]
         IN  IF isOutOfBounds(p, centerY) \/ isDead(p)
             THEN forEachFrom(splice(updated, i), i + 1, len, fluidVelocity, centerY)
             ELSE forEachFrom(updated, i + 1, len, fluidVelocity, centerY)

\* spawnParticle(centerX, centerY); d holds the Math.random() draws
spawnParticle(centerX, centerY, d) ==
    LET x == centerX * PX + (d.x - 50) * 120 * (PX \div 100)
        y == (centerY + 180) * PX
        type == IF d.type > 30 THEN "crystal" ELSE "fluid"
        startSize == IF type = "crystal" THEN 200 ELSE 200 + d.size * 6
    IN  Particle(x, y, startSize, type, d.vx, d.vy)

\* if (Math.random() < 0.3 * speed)
spawns(speed, d) == d.spawn < 3 * speed

\* fluidVelocity = (flowRate / 100) * speed, in thousandths
fluidVelocityOf(flowRate, speed) == flowRate * speed

\* updateParticles(dt, speed, flowRate, centerX, centerY)
updateParticles(ps, speed, flowRate, centerX, centerY, d) ==
    LET fluidVelocity == fluidVelocityOf(flowRate, speed)
        present == [i \in DOMAIN ps |-> [ps[i] EXCEPT !.ticks = @ + 1]]
        swept == forEachFrom(present, 1, Len(present), fluidVelocity, centerY)
    IN  IF spawns(speed, d)
        THEN Append(swept, spawnParticle(centerX, centerY, d))
        ELSE swept

(***************************************************************************)
(* Simulation                                                              *)
(***************************************************************************)
\* floor(a * b / c) for b, c > 0, taken so that no intermediate product
\* exceeds the result's magnitude
MulDiv(a, b, c) == (a \div c) * b + ((a % c) * b) \div c

\* revenue - cost + savings of a snapshot or of the totals, in BRL / 152; the
\* three are whole numbers of BRL / 152 for the inputs drawn
profitOf(revenue, cost, savings) ==
    revenue \div 5 - cost \div 25 + (savings \div 100) * 19

\* the search with h.day <= targetDay as its test
RECURSIVE findUpTo(_, _, _)
findUpTo(history, i, targetDay) ==
    IF i > Len(history) THEN 0
    ELSE IF history[i].day <= targetDay THEN i
    ELSE findUpTo(history, i + 1, targetDay)

\* the search with h.day > targetDay as its test
RECURSIVE findAfter(_, _, _)
findAfter(history, i, targetDay) ==
    IF i > Len(history) THEN 0
    ELSE IF history[i].day > targetDay THEN i
    ELSE findAfter(history, i + 1, targetDay)

\* history.find(h => h.day >= targetDay), from index i on: the index of the
\* first match, 0 for undefined
RECURSIVE find(_, _, _)
find(history, i, targetDay) ==
    IF i > Len(history) THEN 0
    ELSE IF history[i].day >= targetDay THEN i
    ELSE find(history, i + 1, targetDay)

\* roi = (pro30 * 12 / CAPEX) * 100, in ten-thousandths of a percent
roiOf(pro30) == MulDiv(pro30, 12, (CAPEX \div 1000000) * 152)

\* updateUI with the window computed from 2 entries on (history.length > 1)
updateUIWindowFromTwo(c) ==
    LET totalCost == c.totalVariableCost + c.totalFixedCost * 3800
        netProfit == profitOf(c.totalRevenue, totalCost, c.totalSavings)
        history == c.history
        now == history[Len(history)]
        found == find(history, 1, now.day - 30)
        prev == IF found = 0 THEN history[1] ELSE history[found]
        windowDays == now.day - prev.day
        rev30 == IF Len(history) > 1
                 THEN IF windowDays > 0
                      THEN MulDiv(now.revenue - prev.revenue, 30, windowDays)
                      ELSE 0
                 ELSE IF c.simTimeMs * 100 > HOURS_PER_DAY
                      THEN MulDiv(c.totalRevenue, 30 * HOURS_PER_DAY, c.simTimeMs)
                      ELSE 0
        pro30 == IF Len(history) > 1
                 THEN IF windowDays > 0
                      THEN MulDiv(profitOf(now.revenue, now.cost, now.savings)
                                    - profitOf(prev.revenue, prev.cost, prev.savings),
                                  30, windowDays)
                      ELSE 0
                 ELSE IF c.simTimeMs * 100 > HOURS_PER_DAY
                      THEN MulDiv(netProfit, 30 * HOURS_PER_DAY, c.simTimeMs)
                      ELSE 0
    IN  [rev30 |-> rev30, pro30 |-> pro30, roi |-> roiOf(pro30)]

\* updateUI(results): the values set into revenue30d, profit30d and roiValue
updateUI(c) ==
    LET totalCost == c.totalVariableCost + c.totalFixedCost * 3800
        netProfit == profitOf(c.totalRevenue, totalCost, c.totalSavings)
        history == c.history
        now == history[Len(history)]
        found == find(history, 1, now.day - 30)
        prev == IF found = 0 THEN history[1] ELSE history[found]
        windowDays == now.day - prev.day
        rev30 == IF Len(history) > 2
                 THEN IF windowDays > 0
                      THEN MulDiv(now.revenue - prev.revenue, 30, windowDays)
                      ELSE 0
                 ELSE IF c.simTimeMs * 100 > HOURS_PER_DAY
                      THEN MulDiv(c.totalRevenue, 30 * HOURS_PER_DAY, c.simTimeMs)
                      ELSE 0
        pro30 == IF Len(history) > 2
                 THEN IF windowDays > 0
                      THEN MulDiv(profitOf(now.revenue, now.cost, now.savings)
                                    - profitOf(prev.revenue, prev.cost, prev.savings),
                                  30, windowDays)
                      ELSE 0
                 ELSE IF c.simTimeMs * 100 > HOURS_PER_DAY
                      THEN MulDiv(netProfit, 30 * HOURS_PER_DAY, c.simTimeMs)
                      ELSE 0
    IN  [rev30 |-> rev30, pro30 |-> pro30, roi |-> roiOf(pro30)]

\* the page before updateUI has run: nothing reported
Unreported == [rev30 |-> 0, pro30 |-> 0, roi |-> 0]

\* constructor: this.state
\* purityMix is the property the purity listener adds to this.state; it is
\* undefined, held as -1, until the first purity input
SimulationState ==
    [running |-> FALSE, speed |-> 10, flowRate |-> 450, ppmF |-> 50, purityMix |-> -1]

\* centerX = canvas.width / 2, centerY = canvas.height / 2
centerXOf(cv) == cv.width \div 2
centerYOf(cv) == cv.height \div 2

Init ==
    /\ state = SimulationState
    /\ chem = ChemistryEngine
    /\ particles = <<>>
    /\ ui = Unreported
    /\ inputEvents = 0

\* the loop without its running test
steppingAlways(st) == TRUE

\* if (this.state.running)
stepping(st) == st.running

\* loop(time), dt = time - lastTime: while running, chem.calculateReaction and
\* then phys.updateParticles; otherwise only lastTime moves and the scene is
\* redrawn.  A tick that would pass the horizon or the population bound is
\* not taken.
loop(dts, draws, maxDays, maxParticles) ==
    IF stepping(state)
    THEN /\ \E dt \in dts, drift \in DriftSet, d \in draws :
              /\ chem.simTimeMs + simHours(dt, state.speed) <= maxDays * HOURS_PER_DAY
              /\ chem' = calculateReaction(chem, state.flowRate, state.ppmF, dt,
                                           state.speed, drift)
              /\ particles' = updateParticles(particles, state.speed, state.flowRate,
                                              centerXOf(canvas), centerYOf(canvas), d)
              /\ Len(particles') <= maxParticles
         /\ ui' = updateUI(chem')
         /\ UNCHANGED <<state, inputEvents>>
    ELSE UNCHANGED vars

Loop == loop(DtSet, NoSpawnDraws, MaxSimDays, 0)

BedLoop == loop(BedDtSet, BedDraws, MaxBedDays, MaxBedParticles)

\* toggleSystem.onclick
ToggleSystem ==
    /\ state' = [state EXCEPT !.running = ~@]
    /\ UNCHANGED <<chem, particles, ui, inputEvents>>

\* physics reset(): this.particles = []
physReset(ps) == <<>>

\* reset() with the engine's mix restored from the control's last value
ResetSystemKeepsMix ==
    /\ state' = [state EXCEPT !.running = FALSE]
    /\ chem' = [chemReset(chem) EXCEPT
                   !.purityMix = IF state.purityMix = -1 THEN 0 ELSE state.purityMix]
    /\ particles' = physReset(particles)
    /\ ui' = updateUI(chem')
    /\ UNCHANGED inputEvents

\* Simulation.reset()
ResetSystem ==
    /\ state' = [state EXCEPT !.running = FALSE]
    /\ chem' = chemReset(chem)
    /\ particles' = physReset(particles)
    /\ ui' = updateUI(chem')
    /\ UNCHANGED inputEvents

\* bind('speedControl', 'speed')
SpeedControl ==
    /\ inputEvents < MaxInputEvents
    /\ \E v \in SpeedSet : state' = [state EXCEPT !.speed = v]
    /\ inputEvents' = inputEvents + 1
    /\ UNCHANGED <<chem, particles, ui>>

\* bind('flowControl', 'flowRate')
FlowControl ==
    /\ inputEvents < MaxInputEvents
    /\ \E v \in FlowSet : state' = [state EXCEPT !.flowRate = v]
    /\ inputEvents' = inputEvents + 1
    /\ UNCHANGED <<chem, particles, ui>>

\* bind('concControl', 'ppmF')
ConcControl ==
    /\ inputEvents < MaxInputEvents
    /\ \E v \in ConcSet : state' = [state EXCEPT !.ppmF = v]
    /\ inputEvents' = inputEvents + 1
    /\ UNCHANGED <<chem, particles, ui>>

\* bind('purityControl', 'purityMix'): chem.purityMix = v
PurityControl ==
    /\ inputEvents < MaxInputEvents
    /\ \E v \in PuritySet :
         /\ state' = [state EXCEPT !.purityMix = v]
         /\ chem' = [chem EXCEPT !.purityMix = v]
    /\ inputEvents' = inputEvents + 1
    /\ UNCHANGED <<particles, ui>>

\* The simulation over the ledger's horizon.
Next ==
    \/ Loop
    \/ ToggleSystem
    \/ ResetSystem
    \/ SpeedControl
    \/ FlowControl
    \/ ConcControl
    \/ PurityControl

Spec == Init /\ [][Next]_vars

\* The simulation with a populated bed, its controls left as constructed.
NextBed ==
    \/ BedLoop
    \/ ToggleSystem
    \/ ResetSystem

SpecBed == Init /\ [][NextBed]_vars

(***************************************************************************)
(* PhysicsEngine on its own: updateParticles and reset called with the     *)
(* arguments loop() passes.                                                *)
(***************************************************************************)
\* the controls as set before the engine is driven
InitPhys ==
    /\ \E speed \in PhysSpeedSet, flowRate \in PhysFlowSet :
         state = [SimulationState EXCEPT !.speed = speed, !.flowRate = flowRate]
    /\ chem = ChemistryEngine
    /\ particles = <<>>
    /\ ui = Unreported
    /\ inputEvents = 0

UpdateParticles ==
    /\ \E d \in BedDraws :
         /\ particles' = updateParticles(particles, state.speed, state.flowRate,
                                         centerXOf(canvas), centerYOf(canvas), d)
         /\ Len(particles') <= MaxParticles
    /\ UNCHANGED <<state, chem, ui, inputEvents>>

PhysReset ==
    /\ particles' = physReset(particles)
    /\ UNCHANGED <<state, chem, ui, inputEvents>>

NextPhys ==
    \/ UpdateParticles
    \/ PhysReset

SpecPhys == InitPhys /\ [][NextPhys]_vars

\* The engine of a system that keeps running at a constant speed and flow
\* rate: requestAnimationFrame calls loop() again after every frame, and
\* nothing resets the population.
InitPhysRunning ==
    /\ \E speed \in RunningSpeedSet, flowRate \in PhysFlowSet :
         state = [SimulationState EXCEPT !.speed = speed, !.flowRate = flowRate]
    /\ chem = ChemistryEngine
    /\ particles = <<>>
    /\ ui = Unreported
    /\ inputEvents = 0

SpecPhysRunning == InitPhysRunning /\ [][UpdateParticles]_vars /\ WF_vars(UpdateParticles)

(***************************************************************************)
(* One particle on its own: Particle.update and the removal tests applied  *)
(* by updateParticles to a population of one, from any state a particle    *)
(* can be in mid-life, under any speed and any canvas height.              *)
(***************************************************************************)
\* Crystals still rising: spawned at size 1 and grown by 0.015 per update
\* (332 and 333 growths give 5.98 and 5.995), not yet flagged, anywhere in the
\* bed including above the transition line of the 600 px canvas (y = 170),
\* which a rising crystal crosses one update before it is flagged.
RisingCrystals ==
    {[x |-> 400 * PX, y |-> y * PX, size |-> size, type |-> "crystal",
      vx |-> 0, vy |-> vy, alpha |-> 100, sedimenting |-> FALSE,
      ticks |-> 0, visits |-> 0] :
        y \in {160, 200, 400, 480},
        size \in {200, 200 + 332 * GROWTH, 200 + 333 * GROWTH},
        vy \in {-(2 * PX), -(PX \div 2), 0, PX}}

\* Crystals already flagged: size frozen at the flagging, vy at or above the
\* floor of 1.5 the flagging update leaves.
SedimentingCrystals ==
    {[x |-> 400 * PX, y |-> y * PX, size |-> size, type |-> "crystal",
      vx |-> 0, vy |-> vy, alpha |-> 100, sedimenting |-> TRUE,
      ticks |-> 0, visits |-> 0] :
        y \in {160, 200, 400, 480},
        size \in {200, 200 + 100 * GROWTH},
        vy \in {(3 * PX) \div 2, 3 * PX}}

\* Fluid particles: start size 2.5, alpha 1, 0.5, 0.02 and 0.01.
FluidParticles ==
    {[x |-> 400 * PX, y |-> y * PX, size |-> 500, type |-> "fluid",
      vx |-> 0, vy |-> -(2 * PX), alpha |-> alpha, sedimenting |-> FALSE,
      ticks |-> 0, visits |-> 0] :
        y \in {200, 400, 480}, alpha \in {100, 50, 2, 1}}

InitParticle ==
    /\ state = [SimulationState EXCEPT !.running = TRUE]
    /\ chem = ChemistryEngine
    /\ particles \in {<<p>> : p \in RisingCrystals \cup SedimentingCrystals \cup FluidParticles}
    /\ ui = Unreported
    /\ inputEvents = 0

\* updateParticles on the population of one, with no spawn (the spawn draw is
\* 0.99, above 0.3 * speed for both speeds).  ticks counts from the drawn state.
ParticleTick ==
    /\ Len(particles) = 1
    /\ particles[1].ticks < MaxParticleTicks
    /\ \E speed \in ParticleSpeedSet, height \in CanvasHeightSet, d \in NoSpawnDraws :
         particles' = updateParticles(particles, speed, state.flowRate,
                                      centerXOf(canvas),
                                      centerYOf([canvas EXCEPT !.height = height]), d)
    /\ UNCHANGED <<state, chem, ui, inputEvents>>

NextParticle == ParticleTick

SpecParticle == InitParticle /\ [][NextParticle]_vars

(***************************************************************************)
(* Properties                                                              *)
(***************************************************************************)
Increasing(h) == \A i \in 1 .. Len(h) - 1 : h[i].day < h[i + 1].day

\* the entries of h2 that h does not hold
NewEntries(h, h2) == {i \in DOMAIN h2 : \A j \in DOMAIN h : h[j] # h2[i]}

\* C1: history never holds more than 40 entries, and a snapshot taken when it
\* holds 40 evicts exactly the oldest entry: the other 39 keep their order and
\* the new snapshot is last.  Below 40 a snapshot is appended.
HistoryWindow ==
    [][/\ Len(chem.history) <= HISTORY_CAP
       /\ Len(chem'.history) <= HISTORY_CAP
       /\ chem'.lastSnapshotDay > chem.lastSnapshotDay =>
            IF Len(chem.history) < HISTORY_CAP
            THEN /\ Len(chem'.history) = Len(chem.history) + 1
                 /\ SubSeq(chem'.history, 1, Len(chem.history)) = chem.history
            ELSE /\ Len(chem'.history) = HISTORY_CAP
                 /\ SubSeq(chem'.history, 1, HISTORY_CAP - 1) = Tail(chem.history)
                 /\ chem'.history[HISTORY_CAP].day = chem'.lastSnapshotDay]_vars

\* A full history whose oldest entry is day 2: the first snapshot of a run is
\* of day 0, 1, 15 or 31, so entries have been evicted.
HistoryEvicted ==
    /\ Len(chem.history) = HISTORY_CAP
    /\ chem.history[1].day = 2
    /\ chem.lastSnapshotDay = HISTORY_CAP + 1

\* C2: the days of history are strictly increasing, and no step adds more than
\* one entry, ticks that span several simulated days included.
HistoryDaysIncrease ==
    [][/\ Increasing(chem.history)
       /\ Increasing(chem'.history)
       /\ Cardinality(NewEntries(chem.history, chem'.history)) <= 1]_vars

\* A tick spanned several days: two consecutive entries more than a day apart.
HistoryHasGap ==
    /\ Len(chem.history) >= 3
    /\ \E i \in 1 .. Len(chem.history) - 1 :
          chem.history[i + 1].day > chem.history[i].day + 1

\* C3: totalFixedCost = (simTimeMs / 86,400,000) * OPEX_FIXED_DAY in every state.
FixedCostDerived ==
    chem.totalFixedCost * HOURS_PER_DAY = chem.simTimeMs * OPEX_FIXED_DAY

\* Part-way through a day, after several snapshots.
FixedCostMidDay ==
    /\ chem.simTimeMs % HOURS_PER_DAY # 0
    /\ chem.totalFixedCost > 0
    /\ Len(chem.history) >= 2

\* C4: a running tick lowers none of the six mass and financial totals.
TotalsNonDecreasing ==
    [][(Loop /\ state.running) =>
          /\ chem'.totalFInput >= chem.totalFInput
          /\ chem'.totalFluoriteOutput >= chem.totalFluoriteOutput
          /\ chem'.totalCaCl2Used >= chem.totalCaCl2Used
          /\ chem'.totalRevenue >= chem.totalRevenue
          /\ chem'.totalVariableCost >= chem.totalVariableCost
          /\ chem'.totalSavings >= chem.totalSavings]_vars

\* Ticks have accrued every total, at standard price.
TotalsAccrued ==
    /\ state.running
    /\ chem.purityMix = 0
    /\ chem.totalFInput > 0
    /\ chem.totalFluoriteOutput > 0
    /\ chem.totalCaCl2Used > 0
    /\ chem.totalRevenue > 0
    /\ chem.totalVariableCost > 0
    /\ chem.totalSavings > 0
    /\ Len(chem.history) >= 2

\* C5: reset() leaves the engine as constructed and the population empty.
ResetRestoresInitial ==
    [][ResetSystem => (chem' = ChemistryEngine /\ particles' = <<>>)]_vars

\* A running system with accrued totals, history, a moved pH and particles.
BusyBeforeReset ==
    /\ state.running
    /\ chem.totalRevenue > 0
    /\ chem.totalFixedCost > 0
    /\ chem.currentPH # INITIAL_PH
    /\ Len(chem.history) >= 2
    /\ particles # <<>>

\* C6: totalFluoriteOutput = totalFInput * 78 / 38 and
\* totalCaCl2Used = totalFInput * 111 / 38 in every state.
StoichiometryHolds ==
    /\ chem.totalFluoriteOutput = chem.totalFInput * F_TO_CAF2_NUM
    /\ chem.totalCaCl2Used = chem.totalFInput * F_TO_CACL2_NUM

\* Mass accrued at two flow rates.
MassAtTwoFlows ==
    /\ state.flowRate = 900
    /\ chem.totalFInput > (450 * 50 * HOURS_PER_DAY) \div 100
    /\ chem.totalFInput % ((900 * 50 * HOURS_PER_DAY) \div 100) # 0

\* C7: a tick taken while not running changes nothing of the engine or the
\* particle population.
PausedTickFreezes ==
    [][(BedLoop /\ ~state.running) => UNCHANGED <<chem, particles, ui>>]_vars

\* Paused with accrued totals, history and a particle in the bed.
PausedWithParticles ==
    /\ ~state.running
    /\ chem.totalFInput > 0
    /\ chem.history # <<>>
    /\ particles # <<>>

\* C8 as stated: no operation, reset() included, lowers simTimeMs.
SimTimeNeverDecreases == [][chem'.simTimeMs >= chem.simTimeMs]_vars

\* C8 amended: reset() sets simTimeMs to 0 and no other operation lowers it.
SimTimeLoweredOnlyByReset ==
    [][IF ResetSystem
       THEN chem'.simTimeMs = 0
       ELSE chem'.simTimeMs >= chem.simTimeMs]_vars

\* Simulated time has advanced, a control has been moved, the system is paused.
SimTimeAdvanced ==
    /\ chem.simTimeMs > 0
    /\ inputEvents > 0
    /\ ~state.running

\* C9: the sedimenting flag of a crystal is one-way: a crystal that is
\* sedimenting before an update is sedimenting after it, and a crystal whose
\* size is at least 6 at an update is sedimenting after it, for every
\* position, velocity, speed and canvas height, as long as it stays in the
\* population.
SedimentingOneWay ==
    [][\A i \in DOMAIN particles' :
          particles[i].type = "crystal" =>
              /\ particles[i].sedimenting => particles'[i].sedimenting
              /\ particles'[i].size >= SIZE_MAX => particles'[i].sedimenting]_vars

\* a crystal grown past size 6 that has stayed sedimenting through later
\* updates, back below the transition line
GrownCrystalSediments ==
    \E i \in DOMAIN particles :
        /\ particles[i].type = "crystal"
        /\ particles[i].size = 200 + 334 * GROWTH
        /\ particles[i].sedimenting
        /\ particles[i].ticks >= 3
        /\ particles[i].y >= 320 * PX

\* C10: a fluid particle that has been in the population at the start of k
\* running ticks has alpha 1 - 0.01 k.
FluidAlphaTracksTicks ==
    \A i \in DOMAIN particles :
        particles[i].type = "fluid" => particles[i].alpha = 100 - particles[i].ticks

\* the removal condition at the bed centre of the canvas as sized: alpha <= 0,
\* or y > centerY + 220, or y < centerY - 280
Removable(p) ==
    \/ p.alpha <= 0
    \/ p.y > (centerYOf(canvas) + 220) * PX
    \/ p.y < (centerYOf(canvas) - 280) * PX

\* p, of the population at the start of a tick, is still in the population ps
\* the tick leaves: at most one particle is spawned per tick, so ticks tells
\* the particles of a population apart
Survives(p, ps) == \E j \in DOMAIN ps : ps[j].ticks = p.ticks + 1

\* C11: with the bed centre fixed, no particle left in the population by a
\* running tick satisfies the removal condition, and a particle the tick
\* removed satisfies it after its own update.
RemovalExact ==
    [][UpdateParticles =>
         /\ \A j \in DOMAIN particles' : ~Removable(particles'[j])
         /\ \A i \in DOMAIN particles :
              ~Survives(particles[i], particles') =>
                  Removable(update(particles[i],
                                   fluidVelocityOf(state.flowRate, state.speed),
                                   centerYOf(canvas)))]_vars

\* at 0.5x, the fluid particle left alone by the tick that removed the particle
\* ahead of it, one tick before its own alpha reaches 0
SurvivorOfRemoval ==
    /\ state.speed = 5
    /\ Len(particles) = 1
    /\ particles[1].type = "fluid"
    /\ particles[1].ticks = 99
    /\ ~Removable(particles[1])

\* C12: every particle has been visited by forEach once in each running tick
\* at whose start it was in the population.
EachVisitedOncePerTick ==
    \A i \in DOMAIN particles : particles[i].visits = particles[i].ticks

\* (flowRate x concentration / 3600) x (dt / 1000 x speed x 14400) g, in 100 g:
\* the simulated seconds dt / 1000 x speed x 14400 = dt x tenths x 144 / 100,
\* a whole number of hours for the inputs drawn
GoldenMassF(flowRate, concentration, dt, speed) ==
    (flowRate * concentration * (((dt * speed * 144) \div 100) \div 3600)) \div 100

\* C13: one call of calculateReaction computes massF = (flowRate x
\* concentration / 3600) x (dt / 1000 x speed x 14400), massFluorite = massF x
\* 78 / 38 and massCaCl2 = massF x 111 / 38 and adds exactly those to
\* totalFInput, totalFluoriteOutput and totalCaCl2Used; at flowRate 450,
\* concentration 50, dt 6 s and 1.0x that is 540 kg of F.
GoldenMasses ==
    [][\A dt \in DtSet, drift \in DriftSet :
          (/\ Loop
           /\ state.running
           /\ chem'.simTimeMs = chem.simTimeMs + simHours(dt, state.speed)
           /\ chem' = calculateReaction(chem, state.flowRate, state.ppmF, dt,
                                        state.speed, drift))
          => LET g == GoldenMassF(state.flowRate, state.ppmF, dt, state.speed)
                 massF == massFOf(state.flowRate, state.ppmF, dt, state.speed)
             IN  /\ massF = g
                 /\ massFluoriteOf(massF) * STOICH_DEN = g * 78 * STOICH_DEN
                 /\ massCaCl2Of(massF) * STOICH_DEN = g * 111 * STOICH_DEN
                 /\ chem'.totalFInput = chem.totalFInput + g
                 /\ chem'.totalFluoriteOutput = chem.totalFluoriteOutput + g * 78
                 /\ chem'.totalCaCl2Used = chem.totalCaCl2Used + g * 111
                 /\ (/\ state.flowRate = 450
                     /\ state.ppmF = 50
                     /\ state.speed = 10
                     /\ dt = 6000) => g = 5400]_vars

\* after one tick of 6 s at flowRate 450, concentration 50 and 1.0x: 540 kg of
\* F, 540 x 78 / 38 kg of fluorite and 540 x 111 / 38 kg of CaCl2
GoldenTick ==
    /\ state.flowRate = 450
    /\ state.ppmF = 50
    /\ chem.simTimeMs = HOURS_PER_DAY
    /\ chem.totalFInput = 5400
    /\ chem.totalFluoriteOutput = 5400 * 78
    /\ chem.totalCaCl2Used = 5400 * 111

RefIndex(h) ==
    CHOOSE i \in DOMAIN h :
        /\ h[i].day >= h[Len(h)].day - 30
        /\ \A j \in 1 .. i - 1 : h[j].day < h[Len(h)].day - 30

\* snapshots of consecutive days
Consecutive(h) == \A i \in 1 .. Len(h) - 1 : h[i + 1].day = h[i].day + 1

\* C15: with at least 3 entries in history and the reference snapshot span > 0
\* days before the latest, the reported 30-day revenue is (latest.revenue -
\* ref.revenue) x 30 / span and the reported 30-day profit is the difference
\* of revenue - cost + savings between the two, x 30 / span (both to the
\* reporting unit); over 40 snapshots of consecutive days the span is 30 and
\* the differences are reported as they are.
WindowReport ==
    LET h == chem.history
        now == h[Len(h)]
        ref == h[RefIndex(h)]
        span == now.day - ref.day
        dRevenue == now.revenue - ref.revenue
        dProfit == profitOf(now.revenue, now.cost, now.savings)
                     - profitOf(ref.revenue, ref.cost, ref.savings)
    IN  /\ (Len(h) >= 3 /\ span > 0) =>
              /\ ui.rev30 = (dRevenue \div span) * 30 + ((dRevenue % span) * 30) \div span
              /\ ui.pro30 = (dProfit \div span) * 30 + ((dProfit % span) * 30) \div span
        /\ (Len(h) = HISTORY_CAP /\ Consecutive(h)) =>
              /\ span = 30
              /\ ui.rev30 = dRevenue
              /\ ui.pro30 = dProfit

\* 40 snapshots of consecutive days, with revenue and profit in the window
FullWindowReported ==
    /\ Len(chem.history) = HISTORY_CAP
    /\ Consecutive(chem.history)
    /\ ui.rev30 > 0
    /\ ui.pro30 > 0

\* C16: a running tick that leaves at least 3 entries in history and a
\* reference snapshot of the latest snapshot's own day (a span of zero days)
\* keeps the 30-day revenue and profit the previous tick reported.
ZeroSpanKeepsReport ==
    [][(/\ Loop
        /\ state.running
        /\ Len(chem'.history) >= 3
        /\ chem'.history[RefIndex(chem'.history)].day
             = chem'.history[Len(chem'.history)].day)
       => (ui'.rev30 = ui.rev30 /\ ui'.pro30 = ui.pro30)]_vars

\* C17: the reported ROI percentage is the reported 30-day profit x 365 / 30,
\* over CAPEX, x 100 (to the reporting unit).
RoiAnnualisedBy365 ==
    ui.roi = MulDiv(ui.pro30, 365, 30 * (CAPEX \div 1000000) * 152)

\* C18: a running tick adds (massFluorite / 1,000,000) x (p x 5500 + (1 - p)
\* x 3000) to totalRevenue, p = purityMix / 100 being the mix in force at that
\* tick and massFluorite the tick's product mass; a purity input leaves
\* totalRevenue, the revenue of the earlier ticks, as it is.
\* In units: massFluorite in 100 g / 38 times a price in BRL per ton is
\* massFluorite x price / 500 BRL / 760.
RevenuePerTick ==
    [][/\ (Loop /\ state.running) =>
             LET massFluorite == chem'.totalFluoriteOutput - chem.totalFluoriteOutput
                 p == chem.purityMix
             IN  /\ chem'.purityMix = p
                 /\ chem'.totalRevenue - chem.totalRevenue
                      = massFluorite * ((p * 5500 + (100 - p) * 3000) \div (100 * 500))
       /\ PurityControl => chem'.totalRevenue = chem.totalRevenue]_vars

\* revenue accrued partly at the standard price and partly at another mix
RevenueAtTwoPrices ==
    /\ chem.purityMix = 40
    /\ chem.totalRevenue > chem.totalFluoriteOutput * 6
    /\ chem.totalRevenue < chem.totalFluoriteOutput * 8

\* what a step does to the ledger's history: after a running tick the last
\* entry has day = floor(simTimeMs / 86,400,000) = lastSnapshotDay; an entry
\* the tick appended holds the totals the tick left (cost = variable + fixed,
\* in BRL / 3800); the entries already there are kept as they were, but for
\* the oldest when it is evicted; no other step but reset touches history.
SnapshotStep ==
    LET h == chem.history
        h2 == chem'.history
        last == h2[Len(h2)]
    IN  /\ (Loop /\ state.running) =>
              /\ Len(h2) >= 1
              /\ last.day = chem'.simTimeMs \div HOURS_PER_DAY
              /\ last.day = chem'.lastSnapshotDay
              /\ IF chem'.lastSnapshotDay > chem.lastSnapshotDay
                 THEN /\ last.revenue = chem'.totalRevenue
                      /\ last.savings = chem'.totalSavings
                      /\ last.cost = chem'.totalVariableCost + chem'.totalFixedCost * 3800
                      /\ \/ SubSeq(h2, 1, Len(h2) - 1) = h
                         \/ Len(h) = HISTORY_CAP /\ SubSeq(h2, 1, Len(h2) - 1) = Tail(h)
                 ELSE h2 = h
        /\ (~Loop /\ ~ResetSystem) => h2 = h

\* C19 as stated: the above, and the first running tick after construction or
\* reset always records day 0.
FirstSnapshotIsDayZero ==
    [][/\ SnapshotStep
       /\ (Loop /\ state.running /\ chem.lastSnapshotDay = -1) =>
              chem'.history[1].day = 0]_vars

\* C19: the above, and the first running tick after construction or reset
\* always appends an entry, of the day that tick ends in: day 0 only if the
\* tick spans less than a simulated day.
SnapshotFaithful ==
    [][/\ SnapshotStep
       /\ (Loop /\ state.running /\ chem.lastSnapshotDay = -1) =>
              /\ Len(chem'.history) = 1
              /\ chem'.history[1].day = chem'.simTimeMs \div HOURS_PER_DAY
              /\ (chem'.history[1].day = 0) <=> (chem'.simTimeMs < HOURS_PER_DAY)]_vars

\* a ledger whose first running tick spanned 31 simulated days, a second
\* snapshot taken after it
FirstSnapshotLate ==
    /\ Len(chem.history) = 2
    /\ chem.history[1].day = 31
    /\ chem.history[1].revenue > 0

\* C20 as stated: every update of a crystal that is not sedimenting and has
\* size below 6 at its start adds exactly 0.015 to the size, whatever the sign
\* of its vertical velocity; a sedimenting crystal's size never changes.
GrowthWhateverVelocity ==
    [][\A i \in DOMAIN particles' :
          particles[i].type = "crystal" =>
              particles'[i].size =
                  IF ~particles[i].sedimenting /\ particles[i].size < SIZE_MAX
                  THEN particles[i].size + GROWTH
                  ELSE particles[i].size]_vars

\* C20: an update of a crystal that is not sedimenting, has size below 6 and
\* is moving up (vy < 0) at its start adds exactly 0.015 to the size; an
\* update of any other crystal, a sedimenting one included, leaves the size
\* as it is.
GrowthWhileMovingUp ==
    [][\A i \in DOMAIN particles' :
          particles[i].type = "crystal" =>
              particles'[i].size =
                  IF /\ ~particles[i].sedimenting
                     /\ particles[i].size < SIZE_MAX
                     /\ particles[i].vy < 0
                  THEN particles[i].size + GROWTH
                  ELSE particles[i].size]_vars

\* a rising crystal of size 1 that has grown in exactly one of its two updates
GrewInSecondUpdate ==
    \E i \in DOMAIN particles :
        /\ particles[i].type = "crystal"
        /\ ~particles[i].sedimenting
        /\ particles[i].ticks = 2
        /\ particles[i].size = 200 + GROWTH

\* the step is a tick of the one particle with the canvas at this height
TickAtHeight(height) ==
    \E speed \in ParticleSpeedSet, d \in NoSpawnDraws :
        particles' = updateParticles(particles, speed, state.flowRate,
                                     centerXOf(canvas),
                                     centerYOf([canvas EXCEPT !.height = height]), d)

\* C21: a crystal is sedimenting after an update exactly if it was before or
\* if, at the update's transition check (y as the update found it, size as
\* the update's growth left it), y < centerY - 130 or size >= 6: it becomes
\* sedimenting in the first update whose check finds either, in no update
\* whose check finds neither; a fluid particle is never sedimenting.
TransitionExact ==
    [][\A height \in CanvasHeightSet :
          TickAtHeight(height) =>
              \A i \in DOMAIN particles' :
                  IF particles[i].type = "crystal"
                  THEN particles'[i].sedimenting <=>
                           \/ particles[i].sedimenting
                           \/ particles[i].y < (height \div 2 - 130) * PX
                           \/ particles'[i].size >= 6 * 200
                  ELSE ~particles[i].sedimenting /\ ~particles'[i].sedimenting]_vars

\* a crystal below size 6 flagged by its position, after growing once
FlaggedByPosition ==
    \E i \in DOMAIN particles :
        /\ particles[i].type = "crystal"
        /\ particles[i].sedimenting
        /\ particles[i].size = 200 + GROWTH
        /\ particles[i].ticks >= 1

\* C22: with fewer than 3 entries in history the reported 30-day revenue and
\* profit are (totalRevenue / totalDays) x 30 and (netProfit / totalDays) x 30
\* (to the reporting unit) if totalDays > 0.01 and 0 otherwise, an empty
\* history included; with 3 or more and a span of zero days they are 0: no
\* quotient is taken by a zero divisor.  totalDays = simTimeMs / 24 in hours,
\* netProfit = totalRevenue - totalCost + totalSavings in BRL / 152.
ExtrapolatedReport ==
    LET h == chem.history
        hours == chem.simTimeMs
        netProfit == chem.totalRevenue \div 5
                       - (chem.totalVariableCost + chem.totalFixedCost * 3800) \div 25
                       + (chem.totalSavings \div 100) * 19
    IN  /\ Len(h) < 3 =>
              IF hours * 100 > 24
              THEN /\ hours > 0
                   /\ ui.rev30 = (chem.totalRevenue \div hours) * 720
                                   + ((chem.totalRevenue % hours) * 720) \div hours
                   /\ ui.pro30 = (netProfit \div hours) * 720
                                   + ((netProfit % hours) * 720) \div hours
              ELSE ui.rev30 = 0 /\ ui.pro30 = 0
        /\ (Len(h) >= 3 /\ h[RefIndex(h)].day = h[Len(h)].day) =>
              ui.rev30 = 0 /\ ui.pro30 = 0

\* two entries after a tick of half a day and one more: a full day's revenue
\* extrapolated to 30 days
ExtrapolatedFromOneDay ==
    /\ Len(chem.history) = 2
    /\ chem.history[1].revenue > 0
    /\ chem.simTimeMs = HOURS_PER_DAY
    /\ ui.rev30 = chem.totalRevenue * 30

ResetPricesStandard ==
    [][/\ ResetSystem =>
             /\ ~state'.running
             /\ chem'.purityMix = 0
             /\ state'.purityMix = state.purityMix
             /\ inputEvents' = inputEvents
       /\ (~ResetSystem /\ ~PurityControl) => chem'.purityMix = chem.purityMix
       /\ (Loop /\ state.running /\ chem.purityMix = 0) =>
             chem'.totalRevenue - chem.totalRevenue
                 = (chem'.totalFluoriteOutput - chem.totalFluoriteOutput) * (3000 \div 500)]_vars

\* running again after a reset, the control still at 100 % Acidspar, the
\* product of the ticks since priced at 3000
StandardPriceAfterReset ==
    /\ state.running
    /\ state.purityMix = 100
    /\ chem.purityMix = 0
    /\ chem.totalRevenue > 0
    /\ chem.totalRevenue = chem.totalFluoriteOutput * 6

\* C25: whenever history is not empty, the search for the earliest entry with
\* day >= latest.day - 30 finds one (the fallback to the oldest entry is not
\* taken), the span from it to the latest entry is between 0 and 30 days, so
\* a rescaled report is never below the difference it rescales, and the
\* reported 30-day revenue is never negative.
WindowSpanBounded ==
    chem.history # <<>> =>
        LET h == chem.history
            now == h[Len(h)]
            found == find(h, 1, now.day - 30)
            span == now.day - h[found].day
        IN  /\ found # 0
            /\ found = RefIndex(h)
            /\ span >= 0
            /\ span <= 30
            /\ ui.rev30 >= 0
            /\ (Len(h) >= 3 /\ span > 0) => ui.rev30 >= now.revenue - h[found].revenue

\* a history reaching back further than the window, the reference snapshot
\* less than 30 days before the latest, revenue in between
WindowNarrowerThanHistory ==
    /\ Len(chem.history) >= 3
    /\ chem.history[1].day < chem.history[Len(chem.history)].day - 30
    /\ chem.history[Len(chem.history)].day - chem.history[RefIndex(chem.history)].day \in 1 .. 29
    /\ ui.rev30 > 0

\* the tick removes the oldest particle of the population: particles are
\* appended at the end, so the first is the oldest, and after the tick the
\* population is empty or its first particle is not one tick older
OldestRemoved ==
    /\ particles # <<>>
    /\ particles' = <<>> \/ particles'[1].ticks <= particles[1].ticks

\* C26: with the system kept running at constant flow rate and speed and the
\* bed centre fixed, every particle is eventually removed.  A fluid particle
\* in the population has alpha 1 - 0.01 per update of its own and fewer than
\* 100 updates; a sedimenting crystal has vy >= 1.5, and each of its updates
\* moves it down by its vy; and no particle stays for ever: again and again
\* the population is empty or its oldest particle is removed.
EveryParticleRemoved ==
    /\ [](\A i \in DOMAIN particles :
            /\ particles[i].type = "fluid" =>
                 /\ particles[i].alpha = 100 - particles[i].visits
                 /\ particles[i].visits < 100
            /\ (particles[i].type = "crystal" /\ particles[i].sedimenting) =>
                 particles[i].vy >= (3 * PX) \div 2)
    /\ [][\A i \in DOMAIN particles, j \in DOMAIN particles' :
            (/\ particles[i].type = "crystal"
             /\ particles'[j].ticks = particles[i].ticks + 1
             /\ particles'[j].visits = particles[i].visits + 1
             /\ particles'[j].sedimenting) =>
                /\ particles'[j].vy >= (3 * PX) \div 2
                /\ particles'[j].y = particles[i].y + particles'[j].vy]_vars
    /\ ([]<>(particles = <<>>) \/ []<><<OldestRemoved>>_vars)

\* a crystal that has risen, been flagged and come down again below the line
\* it was spawned on, 40 px above the lower bound
CrystalBackAtBottom ==
    \E i \in DOMAIN particles :
        /\ particles[i].type = "crystal"
        /\ particles[i].sedimenting
        /\ particles[i].size > 200
        /\ particles[i].y > (centerYOf(canvas) + 180) * PX

====
